---- MODULE Spec2Model ----
(***************************************************************************)
(* Attribute injection into CityGML documents (src/insert_attributes.py).  *)
(*                                                                         *)
(* Python strings are sequences of one-character strings, so that the      *)
(* substring test of get_attribute_if_present, str.lower, str.islower and  *)
(* str() are computed character by character.  An XML element is a record  *)
(*   [nid, tag, id, name, text, tail, kids]                                *)
(* nid  : the identity of the element object in memory (0 in a file and    *)
(*        for an element created during the run),                          *)
(* tag  : the qualified tag "{uri}local",                                  *)
(* id   : the value of the gml:id attribute, NoStr when there is none,     *)
(* name : the value of the name attribute, NoStr when there is none,       *)
(* text, tail : character data; the empty sequence stands for None and ""  *)
(*        alike (the code only tests them for truth and blankness),        *)
(* kids : the child elements in document order.                            *)
(* Spreadsheet cells and identifiers are Python values [t, n, s] with      *)
(* t in {"int", "float", "str", "nan", "none"}.                            *)
(***************************************************************************)
EXTENDS Integers, Sequences, FiniteSets, TLC

\* ------------------------------------------------------------------------
\* Bounds of the model
\* ------------------------------------------------------------------------
MaxKids == 2
MaxDocs == 2
MaxRows == 2
MaxColumns == 2
MaxBuildings == 2

\* ------------------------------------------------------------------------
\* Strings
\* ------------------------------------------------------------------------
S_bldg == <<"b","l","d","g">>
S_building == <<"b","u","i","l","d","i","n","g">>
S_gen == <<"g","e","n">>
S_generic == <<"g","e","n","e","r","i","c">>
S_Building == <<"B","u","i","l","d","i","n","g">>
S_BuildingPart == <<"B","u","i","l","d","i","n","g","P","a","r","t">>
S_CityModel == <<"C","i","t","y","M","o","d","e","l">>
S_stringAttribute == <<"s","t","r","i","n","g","A","t","t","r","i","b","u","t","e">>
S_value == <<"v","a","l","u","e">>
S_yearOfConstruction == <<"y","e","a","r","O","f","C","o","n","s","t","r","u","c","t","i","o","n">>
S_function == <<"f","u","n","c","t","i","o","n">>
S_comment == <<"c","o","m","m","e","n","t">>
S_func == <<"f","u","n","c">>
S_attribute_type == <<"a","t","t","r","i","b","u","t","e","_","t","y","p","e">>
S_BuildingID == <<"B","u","i","l","d","i","n","g","I","D">>

\* None where a string is expected (never equal to a sequence of characters).
NoStr == <<"<None>">>

Upper == <<"A","B","C","D","E","F","G","H","I","J","K","L","M",
           "N","O","P","Q","R","S","T","U","V","W","X","Y","Z">>
Lower == <<"a","b","c","d","e","f","g","h","i","j","k","l","m",
           "n","o","p","q","r","s","t","u","v","w","x","y","z">>
Digit == <<"0","1","2","3","4","5","6","7","8","9">>

\* str.lower() on one character and on a string.
lower_char(c) ==
  IF \E k \in 1..26 : Upper[k] = c
  THEN Lower[CHOOSE k \in 1..26 : Upper[k] = c]
  ELSE c

lower(s) == [k \in 1..Len(s) |-> lower_char(s[k])]

\* str.islower() on one character.
islower(c) == \E k \in 1..26 : Lower[k] = c

\* Python's  sub in s.
in_str(sub, s) ==
  \E k \in 0..(Len(s) - Len(sub)) : SubSeq(s, k + 1, k + Len(sub)) = sub

\* not s or not s.strip()
is_blank(s) == \A k \in 1..Len(s) : s[k] \in {" ", "\n", "\t"}

RECURSIVE repeat(_, _)
repeat(s, n) == IF n <= 0 THEN <<>> ELSE s \o repeat(s, n - 1)

RECURSIVE join(_, _)
\* sep.join(parts)
join(sep, parts) ==
  IF parts = <<>> THEN <<>>
  ELSE IF Len(parts) = 1 THEN parts[1]
  ELSE parts[1] \o sep \o join(sep, Tail(parts))

\* ------------------------------------------------------------------------
\* Python values held in spreadsheet cells
\* ------------------------------------------------------------------------
PyInt(n) == [t |-> "int", n |-> n, s |-> <<>>]
PyFloat(n) == [t |-> "float", n |-> n, s |-> <<>>]
PyStr(s) == [t |-> "str", n |-> 0, s |-> s]
NaN == [t |-> "nan", n |-> 0, s |-> <<>>]
PyNone == [t |-> "none", n |-> 0, s |-> <<>>]

RECURSIVE int_to_str(_)
int_to_str(n) ==
  IF n < 10 THEN <<Digit[n + 1]>>
  ELSE int_to_str(n \div 10) \o <<Digit[(n % 10) + 1]>>

\* str(v): an int prints its digits, a float with an integral value prints
\* them followed by ".0".
str(v) ==
  CASE v.t = "int" -> int_to_str(v.n)
    [] v.t = "float" -> int_to_str(v.n) \o <<".", "0">>
    [] v.t = "str" -> v.s
    [] v.t = "nan" -> <<"n","a","n">>
    [] OTHER -> <<"N","o","n","e">>

\* pd.isnull / Index.notnull on a scalar.
isnull(v) == v.t \in {"nan", "none"}

\* Equality of two index labels as pandas' object hash table sees it:
\* 100 == 100.0, but 100 != "100".
py_eq(a, b) ==
  \/ a.t \in {"int", "float"} /\ b.t \in {"int", "float"} /\ a.n = b.n
  \/ a.t = "str" /\ b.t = "str" /\ a.s = b.s

\* ------------------------------------------------------------------------
\* Exceptions
\* ------------------------------------------------------------------------
NoError == "NoError"

\* ------------------------------------------------------------------------
\* XML elements
\* ------------------------------------------------------------------------
URI_bldg == <<"n","s","/","b">>
URI_gen == <<"n","s","/","g">>

\* The qualified tag of lxml: "{uri}local".
qname(uri, local) == <<"{">> \o uri \o <<"}">> \o local

Elem(tag, id, name, text, kids) ==
  [nid |-> 0, tag |-> tag, id |-> id, name |-> name, text |-> text,
   tail |-> <<>>, kids |-> kids]

\* None where an element is expected.
NoElement == [none |-> TRUE]

RECURSIVE iterdescendants(_)
\* elem.findall('.//'): every proper descendant element, in document order.
iterdescendants(e) ==
  LET RECURSIVE walk(_)
      walk(k) == IF k > Len(e.kids) THEN <<>>
                 ELSE <<e.kids[k]>> \o iterdescendants(e.kids[k]) \o walk(k + 1)
  IN walk(1)

\* elem.findall('.//prefix:local', namespaces): the descendants with that tag.
findall(e, tag) == SelectSeq(iterdescendants(e), LAMBDA d : d.tag = tag)

Range(f) == {f[k] : k \in DOMAIN f}

\* The Building and BuildingPart elements under a root.
building_elements(gml_root) ==
  {e \in Range(iterdescendants(gml_root)) :
     e.tag \in {qname(URI_bldg, S_Building), qname(URI_bldg, S_BuildingPart)}}

RECURSIVE find(_, _)
\* The element object nid of the tree under e (NoElement when there is none).
find(e, nid) ==
  IF e.nid = nid THEN e
  ELSE LET hits == {k \in 1..Len(e.kids) : find(e.kids[k], nid) # NoElement}
       IN IF hits = {} THEN NoElement
          ELSE find(e.kids[CHOOSE k \in hits : TRUE], nid)

RECURSIVE replace(_, _, _)
\* The tree under e after element object nid was mutated into new.
replace(e, nid, new) ==
  IF e.nid = nid THEN new
  ELSE [e EXCEPT !.kids = [k \in 1..Len(e.kids) |-> replace(e.kids[k], nid, new)]]

RECURSIVE number(_, _), number_kids(_, _)
\* Element objects are created in document order as the file is parsed.
number(e, n) ==
  LET r == number_kids(e.kids, n + 1)
  IN [elem |-> [e EXCEPT !.nid = n, !.kids = r.kids], next |-> r.next]

number_kids(kids, n) ==
  IF kids = <<>> THEN [kids |-> <<>>, next |-> n]
  ELSE LET h == number(kids[1], n)
           t == number_kids(Tail(kids), h.next)
       IN [kids |-> <<h.elem>> \o t.kids, next |-> t.next]

RECURSIVE unnumber(_)
\* What a file holds of a tree: the elements without their object identity.
unnumber(e) ==
  [e EXCEPT !.nid = 0, !.kids = [k \in 1..Len(e.kids) |-> unnumber(e.kids[k])]]

\* etree.parse(path).getroot(): character data after the root element is not
\* part of the tree.
parse(file) ==
  [nsmap |-> file.nsmap, root |-> [number(file.root, 1).elem EXCEPT !.tail = <<>>]]

\* get_namespaces: the prefixed namespaces of the root element.
get_namespaces(gml_root_nsmap) == gml_root_nsmap

\* A variant that does not look at the text of the elements.
get_attribute_if_present_any_text(building, attribute) ==
  LET d == iterdescendants(building)
      hits == {k \in 1..Len(d) : in_str(attribute, d[k].tag)}
  IN IF hits = {} THEN NoElement
     ELSE d[CHOOSE k \in hits : \A j \in hits : k <= j]

\* get_attribute_if_present: the first descendant whose tag contains the
\* attribute name and whose text is not empty.
get_attribute_if_present(building, attribute) ==
  LET d == iterdescendants(building)
      hits == {k \in 1..Len(d) : in_str(attribute, d[k].tag) /\ d[k].text # <<>>}
  IN IF hits = {} THEN NoElement
     ELSE d[CHOOSE k \in hits : \A j \in hits : k <= j]

\* ------------------------------------------------------------------------
\* The table (DataFrame indexed by BuildingID)
\* ------------------------------------------------------------------------
NoTable == [none |-> TRUE]

column_of(df, attribute) == CHOOSE c \in 1..Len(df.columns) : df.columns[c] = attribute

\* df.loc[label, attribute]: a scalar when one row carries the label, a
\* Series when several do, KeyError when none does.
loc(df, label, attribute) ==
  LET rows == {r \in 1..Len(df.index) : py_eq(df.index[r], PyStr(label))}
  IN IF rows = {} THEN [kind |-> "KeyError", v |-> NaN]
     ELSE IF Cardinality(rows) > 1 THEN [kind |-> "Series", v |-> NaN]
     ELSE [kind |-> "scalar",
           v |-> df.data[CHOOSE r \in rows : TRUE][column_of(df, attribute)]]

\* gml_id in df.index.values
in_index(df, gml_id) ==
  \E r \in 1..Len(df.index) : py_eq(df.index[r], PyStr(gml_id))

\* ------------------------------------------------------------------------
\* Reconciliation of one element
\* ------------------------------------------------------------------------
\* A variant that appends without looking for the attribute in the element.
append_citygml_building_attribute_unchecked(building_or_building_part, attribute, df, building_namespace) ==
  LET gml_id == building_or_building_part.id
      cell == loc(df, gml_id, attribute)
      attr == Elem(qname(building_namespace, attribute), NoStr, NoStr, str(cell.v), <<>>)
  IN IF cell.kind = "KeyError"
     THEN [elem |-> building_or_building_part, error |-> "KeyError"]
     ELSE IF cell.kind = "Series"
     THEN [elem |-> building_or_building_part, error |-> "ValueError"]
     ELSE IF cell.v.t = "none" \/ isnull(cell.v)
     THEN [elem |-> building_or_building_part, error |-> NoError]
     ELSE [elem |-> [building_or_building_part EXCEPT !.kids = Append(@, attr)],
           error |-> NoError]

\* A variant that treats an empty string as it treats a null cell.
append_citygml_building_attribute_skip_empty(building_or_building_part, attribute, df, building_namespace) ==
  LET gml_id == building_or_building_part.id
      cell == loc(df, gml_id, attribute)
      attr == Elem(qname(building_namespace, attribute), NoStr, NoStr, str(cell.v), <<>>)
  IN IF cell.kind = "KeyError"
     THEN [elem |-> building_or_building_part, error |-> "KeyError"]
     ELSE IF cell.kind = "Series"
     THEN [elem |-> building_or_building_part, error |-> "ValueError"]
     ELSE IF cell.v.t = "none" \/ isnull(cell.v) \/ cell.v = PyStr(<<>>)
     THEN [elem |-> building_or_building_part, error |-> NoError]
     ELSE IF get_attribute_if_present(building_or_building_part, attribute) # NoElement
     THEN [elem |-> building_or_building_part, error |-> NoError]
     ELSE [elem |-> [building_or_building_part EXCEPT !.kids = Append(@, attr)],
           error |-> NoError]

\* append_citygml_building_attribute: a structured attribute goes to the end
\* of the element unless the cell is null or the attribute is found present.
append_citygml_building_attribute(building_or_building_part, attribute, df, building_namespace) ==
  LET gml_id == building_or_building_part.id
      cell == loc(df, gml_id, attribute)
      attr == Elem(qname(building_namespace, attribute), NoStr, NoStr, str(cell.v), <<>>)
  IN IF cell.kind = "KeyError"
     THEN [elem |-> building_or_building_part, error |-> "KeyError"]
     ELSE IF cell.kind = "Series"
     THEN [elem |-> building_or_building_part, error |-> "ValueError"]
     ELSE IF cell.v.t = "none" \/ isnull(cell.v)
     THEN [elem |-> building_or_building_part, error |-> NoError]
     ELSE IF get_attribute_if_present(building_or_building_part, attribute) # NoElement
     THEN [elem |-> building_or_building_part, error |-> NoError]
     ELSE [elem |-> [building_or_building_part EXCEPT !.kids = Append(@, attr)],
           error |-> NoError]

\* A variant that puts the generic attribute at the end of the element.
insert_generic_attribute_at_end(building_or_building_part, attribute, df, generic_namespace) ==
  LET gml_id == building_or_building_part.id
      cell == loc(df, gml_id, attribute)
      attr == Elem(qname(generic_namespace, S_stringAttribute), NoStr, attribute, <<>>,
                   <<Elem(qname(generic_namespace, S_value), NoStr, NoStr, str(cell.v), <<>>)>>)
  IN IF cell.kind = "KeyError"
     THEN [elem |-> building_or_building_part, error |-> "KeyError"]
     ELSE IF cell.kind = "Series"
     THEN [elem |-> building_or_building_part, error |-> "TypeError"]
     ELSE IF cell.v.t = "none"
     THEN [elem |-> building_or_building_part, error |-> NoError]
     ELSE IF ~(cell.v.t = "str" \/ cell.v.t # "nan")
     THEN [elem |-> building_or_building_part, error |-> NoError]
     ELSE IF get_attribute_if_present(building_or_building_part, attribute) # NoElement
     THEN [elem |-> building_or_building_part, error |-> NoError]
     ELSE [elem |-> [building_or_building_part EXCEPT !.kids = Append(@, attr)],
           error |-> NoError]

\* insert_generic_attribute: a generic attribute goes to the beginning of the
\* element unless the cell is None or NaN or the attribute is found present.
insert_generic_attribute(building_or_building_part, attribute, df, generic_namespace) ==
  LET gml_id == building_or_building_part.id
      cell == loc(df, gml_id, attribute)
      attr == Elem(qname(generic_namespace, S_stringAttribute), NoStr, attribute, <<>>,
                   <<Elem(qname(generic_namespace, S_value), NoStr, NoStr, str(cell.v), <<>>)>>)
  IN IF cell.kind = "KeyError"
     THEN [elem |-> building_or_building_part, error |-> "KeyError"]
     ELSE IF cell.kind = "Series"
     THEN [elem |-> building_or_building_part, error |-> "TypeError"]
     ELSE IF cell.v.t = "none"
     THEN [elem |-> building_or_building_part, error |-> NoError]
     ELSE IF ~(cell.v.t = "str" \/ cell.v.t # "nan")
     THEN [elem |-> building_or_building_part, error |-> NoError]
     ELSE IF get_attribute_if_present(building_or_building_part, attribute) # NoElement
     THEN [elem |-> building_or_building_part, error |-> NoError]
     ELSE [elem |-> [building_or_building_part EXCEPT !.kids = <<attr>> \o @],
           error |-> NoError]

\* One turn of the loop over df.columns in
\* fill_building_or_building_part_with_attributes: the classification of the
\* column is read from the attribute_type row and lower-cased.
fill_attribute(building_or_building_part, attribute, df, namespaces) ==
  LET ty == loc(df, S_attribute_type, attribute)
  IN IF ty.kind = "KeyError"
     THEN [elem |-> building_or_building_part, error |-> "KeyError"]
     ELSE IF ty.kind = "Series" \/ ty.v.t # "str"
     THEN [elem |-> building_or_building_part, error |-> "AttributeError"]
     ELSE IF lower(ty.v.s) \in {S_bldg, S_building}
     THEN IF "bldg" \notin DOMAIN namespaces
          THEN [elem |-> building_or_building_part, error |-> "KeyError"]
          ELSE append_citygml_building_attribute(
                 building_or_building_part, attribute, df, namespaces["bldg"])
     ELSE IF lower(ty.v.s) \in {S_gen, S_generic}
     THEN IF "gen" \notin DOMAIN namespaces
          THEN [elem |-> building_or_building_part, error |-> "KeyError"]
          ELSE insert_generic_attribute(
                 building_or_building_part, attribute, df, namespaces["gen"])
     ELSE [elem |-> building_or_building_part, error |-> NoError]

\* A variant that looks up Buildings only.
in_table_building_only(building_or_building_part, df) ==
  /\ building_or_building_part.tag = qname(URI_bldg, S_Building)
  /\ building_or_building_part.id # NoStr
  /\ in_index(df, building_or_building_part.id)

\* The guard of fill_building_or_building_part_with_attributes: the element
\* has a gml:id and the table has a row for it.
in_table(building_or_building_part, df) ==
  /\ building_or_building_part.id # NoStr
  /\ in_index(df, building_or_building_part.id)

RECURSIVE fill_columns(_, _, _, _)
\* The loop over df.columns from column c on; it ends at the first exception.
fill_columns(e, df, namespaces, c) ==
  IF c > Len(df.columns) THEN [elem |-> e, error |-> NoError]
  ELSE LET r == fill_attribute(e, df.columns[c], df, namespaces)
       IN IF r.error # NoError THEN r
          ELSE fill_columns(r.elem, df, namespaces, c + 1)

fill_building_or_building_part_with_attributes(building_or_building_part, df, namespaces) ==
  IF in_table(building_or_building_part, df)
  THEN fill_columns(building_or_building_part, df, namespaces, 1)
  ELSE [elem |-> building_or_building_part, error |-> NoError]

\* ------------------------------------------------------------------------
\* Serializer
\* ------------------------------------------------------------------------
RECURSIVE indent_xml(_, _)
\* A variant that indents the first child no deeper than the element.
indent_xml_shallow(elem, level) ==
  LET i == <<"\n">> \o repeat(<<" ", " ">>, level)
      n == Len(elem.kids)
      kid(k) == LET c == indent_xml(elem.kids[k], level + 1)
                IN IF k = n /\ is_blank(c.tail) THEN [c EXCEPT !.tail = i] ELSE c
  IN IF n > 0
     THEN [elem EXCEPT !.text = IF is_blank(@) THEN i ELSE @,
                       !.tail = IF is_blank(@) THEN i ELSE @,
                       !.kids = [k \in 1..n |-> kid(k)]]
     ELSE IF level > 0 /\ is_blank(elem.tail)
     THEN [elem EXCEPT !.tail = i]
     ELSE elem

indent_xml(elem, level) ==
  LET i == <<"\n">> \o repeat(<<" ", " ">>, level)
      n == Len(elem.kids)
      kid(k) == LET c == indent_xml(elem.kids[k], level + 1)
                IN IF k = n /\ is_blank(c.tail) THEN [c EXCEPT !.tail = i] ELSE c
  IN IF n > 0
     THEN [elem EXCEPT !.text = IF is_blank(@) THEN i \o <<" ", " ">> ELSE @,
                       !.tail = IF is_blank(@) THEN i ELSE @,
                       !.kids = [k \in 1..n |-> kid(k)]]
     ELSE IF level > 0 /\ is_blank(elem.tail)
     THEN [elem EXCEPT !.tail = i]
     ELSE elem

\* ------------------------------------------------------------------------
\* process(df, gml_path, output_folder) as one function
\* ------------------------------------------------------------------------
NoFile == [none |-> TRUE]
NoTree == [none |-> TRUE]

nids(elems) == [k \in 1..Len(elems) |-> elems[k].nid]

\* gml_root.findall('.//bldg:Building', namespaces)
find_buildings(gml_root, namespaces) ==
  nids(findall(gml_root, qname(namespaces["bldg"], S_Building)))

\* A variant that finds no BuildingPart.
find_building_parts_none(building, namespaces) == <<>>

\* building.findall('.//bldg:BuildingPart', namespaces)
find_building_parts(building, namespaces) ==
  nids(findall(building, qname(namespaces["bldg"], S_BuildingPart)))

\* One call of fill_building_or_building_part_with_attributes on the element
\* object nid of the tree.
fill_element(gml_root, nid, df, namespaces) ==
  LET r == fill_building_or_building_part_with_attributes(find(gml_root, nid), df, namespaces)
  IN [root |-> replace(gml_root, nid, r.elem), error |-> r.error]

RECURSIVE fill_building_parts(_, _, _, _)
fill_building_parts(gml_root, ps, df, namespaces) ==
  IF ps = <<>> THEN [root |-> gml_root, error |-> NoError]
  ELSE LET r == fill_element(gml_root, Head(ps), df, namespaces)
       IN IF r.error # NoError THEN r
          ELSE fill_building_parts(r.root, Tail(ps), df, namespaces)

RECURSIVE fill_buildings(_, _, _, _)
\* The loop over the Buildings: each Building, then its BuildingParts.
fill_buildings(gml_root, bs, df, namespaces) ==
  IF bs = <<>> THEN [root |-> gml_root, error |-> NoError]
  ELSE LET b == fill_element(gml_root, Head(bs), df, namespaces)
       IN IF b.error # NoError THEN b
          ELSE LET ps == find_building_parts(find(b.root, Head(bs)), namespaces)
                   p == fill_building_parts(b.root, ps, df, namespaces)
               IN IF p.error # NoError THEN p
                  ELSE fill_buildings(p.root, Tail(bs), df, namespaces)

\* What new_citygml.write puts into the output folder.
write(nsmap, gml_root) == [nsmap |-> nsmap, root |-> unnumber(gml_root)]

\* process: the output file (NoFile when none was written) and the exception
\* that ended it (NoError when it returned).  The counter i of the loop is
\* unbound after a loop over no Building, and logging it raises.
process(df, gml) ==
  LET gml_tree == parse(gml)
      namespaces == get_namespaces(gml_tree.nsmap)
  IN IF "bldg" \notin DOMAIN namespaces
     THEN [written |-> NoFile, error |-> "SyntaxError"]
     ELSE LET bs == find_buildings(gml_tree.root, namespaces)
              r == fill_buildings(gml_tree.root, bs, df, namespaces)
          IN IF r.error # NoError
             THEN [written |-> NoFile, error |-> r.error]
             ELSE [written |-> write(gml_tree.nsmap, indent_xml(r.root, 0)),
                   error |-> IF bs = <<>> THEN "UnboundLocalError" ELSE NoError]

\* ------------------------------------------------------------------------
\* Spreadsheet Loader and Template Generator
\* ------------------------------------------------------------------------
ALLOWED_SPREADSHEET_FORMATS == <<".xls", ".xlsx", ".ods", ".csv">>

\* A spreadsheet file is the frame pd.read_csv / pd.read_excel reads from it,
\*   [kind |-> "frame", columns, rows, numbers]  (rows of cells, one per
\*   column; numbers: the columns whose header cell read_excel reads as a
\*   number, so that the label is an int and not a str),
\* or the text save_csv_template wrote,
\*   [kind |-> "text", lines]  (lines of fields, joined by ";").
\* pd.read_csv(filename, sep=','): a text without commas is one column wide;
\* its only column is named by the whole first line.
read_csv(file) ==
  IF file.kind = "frame" THEN file
  ELSE [kind |-> "frame",
        numbers |-> {},
        columns |-> <<join(<<";">>, file.lines[1])>>,
        rows |-> [r \in 1..(Len(file.lines) - 1) |->
                    <<PyStr(join(<<";">>, file.lines[r + 1]))>>]]

\* The rows of the index that repeat an earlier label (Index.duplicated()).
duplicated(index) ==
  {r \in 1..Len(index) : \E q \in 1..(r - 1) : py_eq(index[q], index[r])}

RECURSIVE select_rows(_, _, _)
\* seq restricted to the positions in keep, from position k on.
select_rows(seq, keep, k) ==
  IF k > Len(seq) THEN <<>>
  ELSE (IF k \in keep THEN <<seq[k]>> ELSE <<>>) \o select_rows(seq, keep, k + 1)

\* parse_spreadsheet: the table (NoTable when it returns None), the
\* exception it raises, if any, and the labels its logged error lists.
parse_spreadsheet(file) ==
  IF file = NoFile THEN [df |-> NoTable, error |-> NoError, log |-> <<>>]
  ELSE
    LET frame == read_csv(file)
        ids == {c \in 1..Len(frame.columns) : frame.columns[c] = S_BuildingID}
    IN IF ids = {} THEN [df |-> NoTable, error |-> "KeyError", log |-> <<>>]
       ELSE
         LET b == CHOOSE c \in ids : TRUE
             attrs == {c \in 1..Len(frame.columns) : c # b}
             \* df = df.set_index('BuildingID'); df = df[df.index.notnull()]
             kept == {r \in 1..Len(frame.rows) : ~isnull(frame.rows[r][b])}
             rows == select_rows(frame.rows, kept, 1)
             index == [r \in 1..Len(rows) |-> rows[r][b]]
             columns == select_rows(frame.columns, attrs, 1)
             data == [r \in 1..Len(rows) |-> select_rows(rows[r], attrs, 1)]
             duplicate_rows == duplicated(index)
             non_lowercase_attributes ==
               {c \in 1..Len(columns) : ~islower(columns[c][1])}
         IN IF duplicate_rows # {}
            THEN \* '\n'.join(duplicate_rows.array) takes strings only
                 IF \E r \in duplicate_rows : index[r].t # "str"
                 THEN [df |-> NoTable, error |-> "TypeError", log |-> <<>>]
                 ELSE [df |-> NoTable, error |-> NoError,
                       log |-> [r \in 1..Len(select_rows(index, duplicate_rows, 1)) |->
                                  select_rows(index, duplicate_rows, 1)[r].s]]
            ELSE IF \E c \in attrs : c \in frame.numbers
            THEN \* attribute[0] on a label that is an int
                 [df |-> NoTable, error |-> "TypeError", log |-> <<>>]
            ELSE IF non_lowercase_attributes # {}
            THEN [df |-> NoTable, error |-> NoError,
                  log |-> select_rows(columns, non_lowercase_attributes, 1)]
            ELSE [df |-> [columns |-> columns,
                          index |-> [r \in 1..Len(index) |-> PyStr(str(index[r]))],
                          data |-> data],
                  error |-> NoError, log |-> <<>>]

\* gml_root.findall('.//{*}Building'): Building in any namespace.
find_any_building(gml_root) ==
  SelectSeq(iterdescendants(gml_root),
            LAMBDA d : /\ Len(d.tag) > Len(S_Building)
                       /\ SubSeq(d.tag, Len(d.tag) - Len(S_Building), Len(d.tag))
                            = <<"}">> \o S_Building)

\* What csv.write leaves of one attribute: the text of the element found,
\* nothing when none is found; csv.write(None) raises for an element
\* without text.
possible_text(building, attribute) ==
  LET found == get_attribute_if_present(building, attribute)
  IN IF found = NoElement THEN [text |-> <<>>, error |-> NoError]
     ELSE IF found.text = <<>> THEN [text |-> <<>>, error |-> "TypeError"]
     ELSE [text |-> found.text, error |-> NoError]

\* The line save_csv_template writes for one Building, as far as it gets.
template_line(building) ==
  LET possible_year == possible_text(building, S_yearOfConstruction)
      possible_function == possible_text(building, S_function)
  IN IF building.id = NoStr THEN [line |-> <<>>, error |-> "TypeError"]
     ELSE IF possible_year.error # NoError
     THEN [line |-> <<building.id, <<>>>>, error |-> possible_year.error]
     ELSE IF possible_function.error # NoError
     THEN [line |-> <<building.id, possible_year.text, <<>>>>,
           error |-> possible_function.error]
     ELSE [line |-> <<building.id, possible_year.text, possible_function.text, <<>>>>,
           error |-> NoError]

RECURSIVE template_rows(_)
\* The lines save_csv_template writes for the Buildings, up to the first
\* write that raises.
template_rows(bs) ==
  IF bs = <<>> THEN [lines |-> <<>>, error |-> NoError]
  ELSE LET row == template_line(Head(bs))
           rest == template_rows(Tail(bs))
       IN IF row.error # NoError
          THEN [lines |-> IF row.line = <<>> THEN <<>> ELSE <<row.line>>,
                error |-> row.error]
          ELSE [lines |-> <<row.line>> \o rest.lines, error |-> rest.error]

\* save_csv_template: the .csv file it leaves beside the document, and the
\* exception it raises, if any.
save_csv_template(gml) ==
  LET gml_root == parse(gml).root
      body == template_rows(find_any_building(gml_root))
  IN [file |-> [kind |-> "text",
                lines |-> << <<S_BuildingID, S_yearOfConstruction, S_function, S_comment>>,
                             <<S_attribute_type, S_bldg, S_bldg, S_gen>>,
                             <<<<"b","u","i","l","d","i","n","g","1","2","3","4","5","6","7","8","9">>,
                               <<"1","2","3","4">>, <<"1","0","1","0">>,
                               <<"F","a","k","e"," ","b","u","i","l","d","i","n","g">>>> >>
                          \o body.lines],
      error |-> body.error]

\* ------------------------------------------------------------------------
\* Input documents and tables
\* ------------------------------------------------------------------------
ID_b1 == <<"b","1">>
ID_b2 == <<"b","2">>
ID_p1 == <<"p","1">>

SeqsUpTo(S, n) == UNION {[1..m -> S] : m \in 0..n}

\* <bldg:function>1010</bldg:function>
FunctionSet ==
  Elem(qname(URI_bldg, S_function), NoStr, NoStr, <<"1","0","1","0">>, <<>>)

\* <bldg:function/>
FunctionEmpty == Elem(qname(URI_bldg, S_function), NoStr, NoStr, <<>>, <<>>)

\* <gen:stringAttribute name="comment"><gen:value>old</gen:value></gen:stringAttribute>
CommentSet ==
  Elem(qname(URI_gen, S_stringAttribute), NoStr, S_comment, <<>>,
       <<Elem(qname(URI_gen, S_value), NoStr, NoStr, <<"o","l","d">>, <<>>)>>)

LeafKids == {FunctionSet, FunctionEmpty, CommentSet}

BuildingParts ==
  {Elem(qname(URI_bldg, S_BuildingPart), ID_p1, NoStr, <<>>, ks) :
     ks \in SeqsUpTo({FunctionSet}, 1)}

Buildings ==
  {Elem(qname(URI_bldg, S_Building), ID_b1, NoStr, <<>>, ks) :
     ks \in SeqsUpTo(LeafKids \cup BuildingParts, MaxKids)}
  \cup
  {Elem(qname(URI_bldg, S_Building), NoStr, NoStr, <<>>, ks) :
     ks \in SeqsUpTo(BuildingParts, 1)}

Building_b2 == Elem(qname(URI_bldg, S_Building), ID_b2, NoStr, <<>>, <<>>)

FullNsmap == [p \in {"bldg", "gen"} |-> IF p = "bldg" THEN URI_bldg ELSE URI_gen]

CityModel(nsmap, bs) ==
  [nsmap |-> nsmap,
   root |-> Elem(qname(<<"n","s","/","c">>, S_CityModel), NoStr, NoStr, <<>>, bs)]

Documents ==
  {CityModel(FullNsmap, <<>>)}
  \cup {CityModel(FullNsmap, <<b>>) : b \in Buildings}
  \cup {CityModel(FullNsmap, <<Building_b2, b>>) : b \in {x \in Buildings : Len(x.kids) = 0}}
  \cup {CityModel([p \in {"bldg"} |-> URI_bldg], <<b>>) : b \in {x \in Buildings : Len(x.kids) = 0}}
  \cup {CityModel([p \in {"gen"} |-> URI_gen], <<b>>) : b \in {x \in Buildings : Len(x.kids) = 0}}

AttributeNames == {S_function, S_comment}

\* Entries of the attribute_type row: structured, generic, unrecognized, empty.
Classes == {PyStr(S_Building), PyStr(S_gen), PyStr(<<"n","o","t","e">>), NaN}

\* Cells as read_csv / read_excel deliver them: an empty cell is NaN.
Cells == {NaN, PyInt(7), PyStr(<<"o","k">>)}

recognized(class) ==
  class.t = "str" /\ lower(class.s) \in {S_bldg, S_building, S_gen, S_generic}

\* A column: its name, its attribute_type entry and the cell of every row.
Columns ==
  {[name |-> n, class |-> c, cell |-> v] : n \in AttributeNames, c \in Classes, v \in Cells}

\* The columns of a table: distinct names, in any order.
Layouts ==
  {l \in SeqsUpTo(Columns, Cardinality(AttributeNames)) :
     /\ Len(l) > 0
     /\ \A j, k \in 1..Len(l) : j # k => l[j].name # l[k].name
     /\ \A k \in 1..Len(l) : ~recognized(l[k].class) => l[k].cell = NaN}

IdLists == {<<ID_b1>>, <<ID_p1>>, <<ID_b1, ID_p1>>}

\* The DataFrame parse_spreadsheet returns for a sheet with these columns
\* and one row per identifier, with or without an attribute_type row.
Table(l, ids, typed) ==
  [columns |-> [k \in 1..Len(l) |-> l[k].name],
   index |-> (IF typed THEN <<PyStr(S_attribute_type)>> ELSE <<>>)
             \o [r \in 1..Len(ids) |-> PyStr(ids[r])],
   data |-> (IF typed THEN <<[k \in 1..Len(l) |-> l[k].class]>> ELSE <<>>)
            \o [r \in 1..Len(ids) |-> [k \in 1..Len(l) |-> l[k].cell]]]

\* Two columns with a value in every row, one named by a part of the
\* other's name.
ContainedLayouts ==
  {<<[name |-> n[1], class |-> c[1], cell |-> PyStr(<<"o","k">>)],
     [name |-> n[2], class |-> c[2], cell |-> PyStr(<<"o","k">>)]>> :
     n \in {<<S_function, S_func>>, <<S_func, S_function>>},
     c \in {PyStr(S_Building), PyStr(S_gen)} \X {PyStr(S_Building), PyStr(S_gen)}}

Tables ==
  {Table(l, ids, TRUE) : l \in Layouts \cup ContainedLayouts, ids \in IdLists}
  \cup {Table(l, <<ID_b1>>, FALSE) : l \in {x \in Layouts : Len(x) = 1 /\ x[1].class = NaN}}

\* A spreadsheet file with a type row and one row per identifier, as
\* read_csv / read_excel read it: an identifier column and one attribute.
Sheet(id_column, name, class, ids) ==
  [kind |-> "frame",
   numbers |-> {},
   columns |-> <<id_column, name>>,
   rows |-> <<<<PyStr(S_attribute_type), class>>>>
            \o [r \in 1..Len(ids) |-> <<ids[r], PyStr(<<"o","k">>)>>]]

S_100 == <<"1","0","0">>

\* Identifier cells: an Excel number, the same as a float, as text, a
\* gml:id, an empty cell.
IdValues == {PyInt(100), PyFloat(100), PyStr(S_100), PyStr(ID_b1), NaN}

S_Comment == <<"C","o","m","m","e","n","t">>
S_2020 == <<"2","0","2","0">>

\* Header cells of attribute columns: text, or a number in an Excel sheet.
Labels ==
  {[name |-> S_comment, number |-> FALSE],
   [name |-> S_function, number |-> FALSE],
   [name |-> S_Comment, number |-> FALSE],
   [name |-> S_2020, number |-> FALSE],
   [name |-> S_2020, number |-> TRUE]}

\* A spreadsheet file with these attribute columns, a type row and one row
\* per identifier.
Spreadsheet(id_column, labels, ids) ==
  [kind |-> "frame",
   numbers |-> {c + 1 : c \in {k \in 1..Len(labels) : labels[k].number}},
   columns |-> <<id_column>> \o [c \in 1..Len(labels) |-> labels[c].name],
   rows |-> <<<<PyStr(S_attribute_type)>> \o [c \in 1..Len(labels) |-> PyStr(S_gen)]>>
            \o [r \in 1..Len(ids) |->
                  <<ids[r]>> \o [c \in 1..Len(labels) |-> PyStr(<<"o","k">>)]]]

Sheets ==
  {Spreadsheet(c, ls, ids) :
     c \in {S_BuildingID, <<"i","d">>},
     ls \in {x \in SeqsUpTo(Labels, MaxColumns) :
               /\ Len(x) > 0
               /\ \A j, k \in 1..Len(x) : j # k => x[j].name # x[k].name},
     ids \in {x \in SeqsUpTo(IdValues, MaxRows) : Len(x) > 0}}

\* The files beside a document: none of a format, or one of these.
NoSheets == [ext \in Range(ALLOWED_SPREADSHEET_FORMATS) |-> NoFile]

CsvFiles ==
  {NoFile,
   Sheet(S_BuildingID, S_comment, PyStr(S_gen), <<PyStr(ID_b1)>>),
   Sheet(S_BuildingID, S_comment, NaN, <<PyStr(ID_b1)>>),
   Sheet(S_BuildingID, S_comment, PyStr(S_gen), <<PyStr(ID_b1), PyStr(ID_b1)>>),
   Sheet(<<"i","d">>, S_comment, PyStr(S_gen), <<PyStr(ID_b1)>>)}

XlsxFiles ==
  {NoFile,
   Sheet(S_BuildingID, S_comment, PyStr(S_gen), <<PyStr(ID_b1)>>),
   Sheet(S_BuildingID, S_comment, PyStr(S_gen), <<PyInt(100), PyInt(100)>>)}

BatchDocuments ==
  {CityModel(FullNsmap, <<>>),
   CityModel(FullNsmap, <<Elem(qname(URI_bldg, S_Building), ID_b1, NoStr, <<>>, <<>>)>>),
   CityModel(FullNsmap, <<Elem(qname(URI_bldg, S_Building), NoStr, NoStr, <<>>, <<>>)>>)}

\* A document of the input folder with the spreadsheet files of its name.
Entries ==
  {[suffix |-> ".xml", gml |-> d,
    sheets |-> [NoSheets EXCEPT ![".csv"] = c, ![".xlsx"] = x]] :
     d \in BatchDocuments, c \in CsvFiles, x \in XlsxFiles}
  \cup
  {[suffix |-> ".gml",
    gml |-> CityModel(FullNsmap, <<Elem(qname(URI_bldg, S_Building), ID_b1, NoStr, <<>>, <<>>)>>),
    sheets |-> NoSheets]}

Folders == SeqsUpTo(Entries, MaxDocs)

\* ------------------------------------------------------------------------
\* State
\* ------------------------------------------------------------------------
VARIABLES
  gml,        \* the document file process reads
  df,         \* the table process was called with
  tree,       \* the parsed tree (NoTree before it is parsed)
  buildings,  \* the Buildings the outer loop has still to visit
  building,   \* the Building the outer loop is at (0: none)
  parts,      \* the BuildingParts the inner loop has still to visit
  cur,        \* the element being filled (0: none)
  col,        \* the column the loop over df.columns is at
  i,          \* the counter of the outer loop (0: unbound)
  pc,         \* where the run is
  error,      \* the exception that ended the run
  written,    \* the file in the output folder (NoFile: none)
  first,      \* the output of the first run, once a second run started
  run,        \* which run this is
  call,       \* a single call of one of the two insertion functions
  result,     \* what that call returned (NoResult before it)
  folder,         \* the input folder: documents and their spreadsheet files
  filenames,      \* the documents the batch loop has still to visit
  gml_path,       \* the document the batch loop is at (0: none)
  templates,      \* the .csv templates written into the input folder
  output_folder,  \* the documents written into the output folder
  filename,       \* the spreadsheet file parse_spreadsheet is called on
  parsed,         \* what that call returned (NoResult before it)
  template        \* what a call of save_csv_template returned (NoResult before it)

vars == <<gml, df, tree, buildings, building, parts, cur, col, i, pc, error,
          written, first, run, call, result,
          folder, filenames, gml_path, templates, output_folder, filename, parsed,
          template>>

NoCall == [none |-> TRUE]
NoResult == [none |-> TRUE]

\* The variables of the other machines, at rest.
call_vars == <<call, result>>
batch_vars == <<folder, filenames, gml_path, templates, output_folder>>
parse_vars == <<filename, parsed, template>>

Init ==
  /\ gml \in Documents
  /\ df \in Tables
  /\ tree = NoTree
  /\ buildings = <<>>
  /\ building = 0
  /\ parts = <<>>
  /\ cur = 0
  /\ col = 0
  /\ i = 0
  /\ pc = "parse"
  /\ error = NoError
  /\ written = NoFile
  /\ first = NoFile
  /\ run = 1
  /\ call = NoCall
  /\ result = NoResult
  /\ folder = <<>>
  /\ filenames = <<>>
  /\ gml_path = 0
  /\ templates = <<>>
  /\ output_folder = <<>>
  /\ filename = NoFile
  /\ parsed = NoResult
  /\ template = NoResult

\* The column at which fill_building_or_building_part_with_attributes starts
\* on element nid: past the last one when the guard on gml:id fails.
first_column(nid) ==
  IF in_table(find(tree.root, nid), df) THEN 1 ELSE Len(df.columns) + 1

\* process, up to the loop over the Buildings.
ParseDocument ==
  /\ pc = "parse"
  /\ LET gml_tree == parse(gml)
         namespaces == get_namespaces(gml_tree.nsmap)
     IN /\ tree' = gml_tree
        /\ IF "bldg" \in DOMAIN namespaces
           THEN /\ buildings' = find_buildings(gml_tree.root, namespaces)
                /\ pc' = "loop"
                /\ error' = error
           ELSE /\ buildings' = buildings
                /\ pc' = "crashed"
                /\ error' = "SyntaxError"
  /\ UNCHANGED <<gml, df, building, parts, cur, col, i, written, first, run, call_vars, batch_vars, parse_vars>>

\* The outer loop takes the next Building and calls
\* fill_building_or_building_part_with_attributes on it.
NextBuilding ==
  /\ pc = "loop"
  /\ cur = 0
  /\ buildings # <<>>
  /\ buildings' = Tail(buildings)
  /\ building' = Head(buildings)
  /\ cur' = Head(buildings)
  /\ col' = first_column(Head(buildings))
  /\ i' = i + 1
  /\ UNCHANGED <<gml, df, tree, parts, pc, error, written, first, run, call_vars, batch_vars, parse_vars>>

\* One turn of the loop over df.columns on the element being filled.
FillAttribute ==
  /\ pc = "loop"
  /\ cur # 0
  /\ col <= Len(df.columns)
  /\ LET r == fill_attribute(find(tree.root, cur), df.columns[col], df,
                             get_namespaces(tree.nsmap))
     IN IF r.error = NoError
        THEN /\ tree' = [tree EXCEPT !.root = replace(@, cur, r.elem)]
             /\ col' = col + 1
             /\ UNCHANGED <<pc, error>>
        ELSE /\ pc' = "crashed"
             /\ error' = r.error
             /\ UNCHANGED <<tree, col>>
  /\ UNCHANGED <<gml, df, buildings, building, parts, cur, i, written, first, run, call_vars, batch_vars, parse_vars>>

\* The inner loop: after the Building, each of its BuildingParts in turn.
NextBuildingPart ==
  /\ pc = "loop"
  /\ cur # 0
  /\ col > Len(df.columns)
  /\ LET ps == IF cur = building
               THEN find_building_parts(find(tree.root, building),
                                        get_namespaces(tree.nsmap))
               ELSE parts
     IN IF ps = <<>>
        THEN /\ cur' = 0
             /\ building' = 0
             /\ parts' = <<>>
             /\ col' = 0
        ELSE /\ cur' = Head(ps)
             /\ building' = IF cur = building THEN -1 ELSE building
             /\ parts' = Tail(ps)
             /\ col' = first_column(Head(ps))
  /\ UNCHANGED <<gml, df, tree, buildings, i, pc, error, written, first, run, call_vars, batch_vars, parse_vars>>

\* After the loop: indent_xml, the write, and the log line that reads i.
Serialize ==
  /\ pc = "loop"
  /\ cur = 0
  /\ buildings = <<>>
  /\ LET gml_root == indent_xml(tree.root, 0)
     IN /\ tree' = [tree EXCEPT !.root = gml_root]
        /\ written' = write(tree.nsmap, gml_root)
        /\ output_folder' = IF gml_path = 0 THEN output_folder
                             ELSE [output_folder EXCEPT ![gml_path] = write(tree.nsmap, gml_root)]
  /\ IF i = 0
     THEN pc' = "crashed" /\ error' = "UnboundLocalError"
     ELSE pc' = "done" /\ error' = error
  /\ UNCHANGED <<gml, df, buildings, building, parts, cur, col, i, first, run, call_vars,
                 folder, filenames, gml_path, templates, parse_vars>>

\* The injection is run again on the output of the first run, with the same
\* table.
Rerun ==
  /\ pc = "done"
  /\ run = 1
  /\ gml' = written
  /\ first' = written
  /\ run' = 2
  /\ tree' = NoTree
  /\ i' = 0
  /\ pc' = "parse"
  /\ written' = NoFile
  /\ UNCHANGED <<df, buildings, building, parts, cur, col, error, call_vars, batch_vars, parse_vars>>

Next ==
  \/ ParseDocument
  \/ NextBuilding
  \/ FillAttribute
  \/ NextBuildingPart
  \/ Serialize

\* One run of process on one document with one table.
Spec == Init /\ [][Next]_vars

NextTwice ==
  \/ ParseDocument
  \/ NextBuilding
  \/ FillAttribute
  \/ NextBuildingPart
  \/ Serialize
  \/ Rerun

\* A run of process, and a second run on its output.
SpecTwice == Init /\ [][NextTwice]_vars

\* ------------------------------------------------------------------------
\* The two insertion functions, called once on one element
\* ------------------------------------------------------------------------
\* Cells a caller can hand to the two functions: also "" and None.
FillCells == Cells \cup {PyStr(<<>>), PyNone}

FillTables ==
  {Table(<<[name |-> n, class |-> c, cell |-> v]>>, ids, TRUE) :
     n \in AttributeNames, c \in {PyStr(S_Building), PyStr(S_gen)},
     v \in FillCells, ids \in IdLists}

\* The Building and BuildingPart objects of the parsed input documents.
FillElements == UNION {building_elements(parse(d).root) : d \in Documents}

InitFill ==
  /\ df \in FillTables
  /\ call \in {[fn |-> "none", elem |-> e, attribute |-> df.columns[1]] :
                 e \in {x \in FillElements : in_table(x, df)}}
  /\ result = NoResult
  /\ gml = NoFile
  /\ tree = NoTree
  /\ buildings = <<>>
  /\ building = 0
  /\ parts = <<>>
  /\ cur = 0
  /\ col = 0
  /\ i = 0
  /\ pc = "call"
  /\ error = NoError
  /\ written = NoFile
  /\ first = NoFile
  /\ run = 1
  /\ folder = <<>>
  /\ filenames = <<>>
  /\ gml_path = 0
  /\ templates = <<>>
  /\ output_folder = <<>>
  /\ filename = NoFile
  /\ parsed = NoResult
  /\ template = NoResult

process_vars == <<gml, df, tree, buildings, building, parts, cur, col, i, pc,
                  error, written, first, run>>

\* fill_building_or_building_part_with_attributes reaches
\* append_citygml_building_attribute for a structured column.
CallAppend ==
  /\ pc = "call"
  /\ call.fn = "none"
  /\ lower(loc(df, S_attribute_type, call.attribute).v.s) \in {S_bldg, S_building}
  /\ call' = [call EXCEPT !.fn = "append"]
  /\ result' = append_citygml_building_attribute(call.elem, call.attribute, df, URI_bldg)
  /\ UNCHANGED <<process_vars, batch_vars, parse_vars>>

\* fill_building_or_building_part_with_attributes reaches
\* insert_generic_attribute for a generic column.
CallInsert ==
  /\ pc = "call"
  /\ call.fn = "none"
  /\ lower(loc(df, S_attribute_type, call.attribute).v.s) \in {S_gen, S_generic}
  /\ call' = [call EXCEPT !.fn = "insert"]
  /\ result' = insert_generic_attribute(call.elem, call.attribute, df, URI_gen)
  /\ UNCHANGED <<process_vars, batch_vars, parse_vars>>

NextFill == CallAppend \/ CallInsert

\* One call of an insertion function on one element.
SpecFill == InitFill /\ [][NextFill]_vars

\* ------------------------------------------------------------------------
\* fill_building_or_building_part_with_attributes, called once on one element
\* ------------------------------------------------------------------------
\* Column names of which some are contained in the tag of an element that
\* another column creates: "func" in "{ns/b}function", "value" in the
\* "{ns/g}value" child of every stringAttribute.
OrderNames == {S_function, S_func, S_comment, S_value}

OrderColumns ==
  {[name |-> n, class |-> c, cell |-> v] :
     n \in OrderNames, c \in {PyStr(S_bldg), PyStr(S_gen)}, v \in {NaN, PyStr(<<"o","k">>)}}

\* The columns of a table: distinct names, in any order.
OrderLayouts ==
  {l \in SeqsUpTo(OrderColumns, MaxColumns) :
     /\ Len(l) > 0
     /\ \A j, k \in 1..Len(l) : j # k => l[j].name # l[k].name}

OrderTables == {Table(l, <<ID_b1>>, TRUE) : l \in OrderLayouts}

InitColumns ==
  /\ df \in OrderTables
  /\ call \in {[fn |-> "none", elem |-> e, attribute |-> NoStr] :
                 e \in {x \in FillElements : in_table(x, df)}}
  /\ result = NoResult
  /\ gml = NoFile
  /\ tree = NoTree
  /\ buildings = <<>>
  /\ building = 0
  /\ parts = <<>>
  /\ cur = 0
  /\ col = 0
  /\ i = 0
  /\ pc = "call"
  /\ error = NoError
  /\ written = NoFile
  /\ first = NoFile
  /\ run = 1
  /\ folder = <<>>
  /\ filenames = <<>>
  /\ gml_path = 0
  /\ templates = <<>>
  /\ output_folder = <<>>
  /\ filename = NoFile
  /\ parsed = NoResult
  /\ template = NoResult

FillElement ==
  /\ pc = "call"
  /\ call.fn = "none"
  /\ call' = [call EXCEPT !.fn = "fill"]
  /\ result' = fill_building_or_building_part_with_attributes(call.elem, df, FullNsmap)
  /\ UNCHANGED <<process_vars, batch_vars, parse_vars>>

NextColumns == FillElement

\* One call of fill_building_or_building_part_with_attributes on one element.
SpecColumns == InitColumns /\ [][NextColumns]_vars

\* ------------------------------------------------------------------------
\* parse_spreadsheet, called once on one file
\* ------------------------------------------------------------------------
run_vars == <<gml, df, tree, buildings, building, parts, cur, col, i, written,
              first, run>>

InitParse ==
  /\ filename \in Sheets
  /\ parsed = NoResult
  /\ template = NoResult
  /\ pc = "call"
  /\ error = NoError
  /\ gml = NoFile
  /\ df = NoTable
  /\ tree = NoTree
  /\ buildings = <<>>
  /\ building = 0
  /\ parts = <<>>
  /\ cur = 0
  /\ col = 0
  /\ i = 0
  /\ written = NoFile
  /\ first = NoFile
  /\ run = 1
  /\ call = NoCall
  /\ result = NoResult
  /\ folder = <<>>
  /\ filenames = <<>>
  /\ gml_path = 0
  /\ templates = <<>>
  /\ output_folder = <<>>

ParseSpreadsheet ==
  /\ pc = "call"
  /\ parsed = NoResult
  /\ parsed' = parse_spreadsheet(filename)
  /\ error' = parse_spreadsheet(filename).error
  /\ pc' = IF parse_spreadsheet(filename).error = NoError THEN "done" ELSE "crashed"
  /\ UNCHANGED <<run_vars, call_vars, batch_vars, filename, template>>

NextParse == ParseSpreadsheet

\* One call of parse_spreadsheet on one spreadsheet file.
SpecParse == InitParse /\ [][NextParse]_vars

\* ------------------------------------------------------------------------
\* get_attribute_if_present, called once on one element
\* ------------------------------------------------------------------------
\* The roots, Buildings and BuildingParts of the input documents, as parsed
\* and as indent_xml leaves them.
LookupElements ==
  UNION {{parse(d).root, indent_xml(parse(d).root, 0)}
           \cup building_elements(parse(d).root)
           \cup building_elements(indent_xml(parse(d).root, 0)) : d \in Documents}

LookupNames == {S_function, S_comment, S_yearOfConstruction, S_Building, S_value}

InitLookup ==
  /\ call \in {[fn |-> "none", elem |-> e, attribute |-> a] :
                 e \in LookupElements, a \in LookupNames}
  /\ result = NoResult
  /\ pc = "call"
  /\ error = NoError
  /\ gml = NoFile
  /\ df = NoTable
  /\ tree = NoTree
  /\ buildings = <<>>
  /\ building = 0
  /\ parts = <<>>
  /\ cur = 0
  /\ col = 0
  /\ i = 0
  /\ written = NoFile
  /\ first = NoFile
  /\ run = 1
  /\ folder = <<>>
  /\ filenames = <<>>
  /\ gml_path = 0
  /\ templates = <<>>
  /\ output_folder = <<>>
  /\ filename = NoFile
  /\ parsed = NoResult
  /\ template = NoResult

GetAttributeIfPresent ==
  /\ pc = "call"
  /\ call.fn = "none"
  /\ call' = [call EXCEPT !.fn = "present"]
  /\ result' = [elem |-> get_attribute_if_present(call.elem, call.attribute),
                error |-> NoError]
  /\ UNCHANGED <<process_vars, batch_vars, parse_vars>>

NextLookup == GetAttributeIfPresent

\* One call of get_attribute_if_present on one element.
SpecLookup == InitLookup /\ [][NextLookup]_vars

\* ------------------------------------------------------------------------
\* indent_xml, called once on one root
\* ------------------------------------------------------------------------
\* An element with this text, tail and children.
Node(text, tail, kids) ==
  [Elem(<<"e">>, NoStr, NoStr, text, kids) EXCEPT !.tail = tail]

\* Text and tails: none, whitespace, characters.
Texts == {<<>>, <<"\n", " ">>, <<"x">>}

IndentLeaves == {Node(t, l, <<>>) : t \in {<<>>, <<"x">>}, l \in Texts}

IndentKids ==
  IndentLeaves \cup {Node(t, l, <<k>>) : t \in Texts, l \in {<<>>, <<"x">>}, k \in IndentLeaves}

IndentRoots ==
  {Node(t, <<>>, ks) : t \in {<<>>, <<"x">>}, ks \in SeqsUpTo(IndentKids, MaxKids)}

InitIndent ==
  /\ call \in {[fn |-> "none", elem |-> e, attribute |-> <<>>] : e \in IndentRoots}
  /\ result = NoResult
  /\ pc = "call"
  /\ error = NoError
  /\ gml = NoFile
  /\ df = NoTable
  /\ tree = NoTree
  /\ buildings = <<>>
  /\ building = 0
  /\ parts = <<>>
  /\ cur = 0
  /\ col = 0
  /\ i = 0
  /\ written = NoFile
  /\ first = NoFile
  /\ run = 1
  /\ folder = <<>>
  /\ filenames = <<>>
  /\ gml_path = 0
  /\ templates = <<>>
  /\ output_folder = <<>>
  /\ filename = NoFile
  /\ parsed = NoResult
  /\ template = NoResult

IndentXml ==
  /\ pc = "call"
  /\ call.fn = "none"
  /\ call' = [call EXCEPT !.fn = "indent"]
  /\ result' = [elem |-> indent_xml(call.elem, 0), error |-> NoError]
  /\ UNCHANGED <<process_vars, batch_vars, parse_vars>>

NextIndent == IndentXml

\* One call of indent_xml on one root.
SpecIndent == InitIndent /\ [][NextIndent]_vars

\* ------------------------------------------------------------------------
\* save_csv_template, called once on one document
\* ------------------------------------------------------------------------
\* <bldg:yearOfConstruction>1990</bldg:yearOfConstruction>
YearSet ==
  Elem(qname(URI_bldg, S_yearOfConstruction), NoStr, NoStr, <<"1","9","9","0">>, <<>>)

TemplateBuildings ==
  {Elem(qname(URI_bldg, S_Building), id, NoStr, <<>>, ks) :
     id \in {ID_b1, ID_b2, NoStr},
     ks \in SeqsUpTo({FunctionSet, FunctionEmpty, YearSet} \cup BuildingParts, MaxKids)}

TemplateDocuments ==
  {CityModel(FullNsmap, bs) : bs \in SeqsUpTo(TemplateBuildings, MaxBuildings)}

InitTemplate ==
  /\ gml \in TemplateDocuments
  /\ template = NoResult
  /\ pc = "call"
  /\ error = NoError
  /\ df = NoTable
  /\ tree = NoTree
  /\ buildings = <<>>
  /\ building = 0
  /\ parts = <<>>
  /\ cur = 0
  /\ col = 0
  /\ i = 0
  /\ written = NoFile
  /\ first = NoFile
  /\ run = 1
  /\ call = NoCall
  /\ result = NoResult
  /\ folder = <<>>
  /\ filenames = <<>>
  /\ gml_path = 0
  /\ templates = <<>>
  /\ output_folder = <<>>
  /\ filename = NoFile
  /\ parsed = NoResult

SaveCsvTemplate ==
  /\ pc = "call"
  /\ template = NoResult
  /\ template' = save_csv_template(gml)
  /\ error' = save_csv_template(gml).error
  /\ pc' = IF save_csv_template(gml).error = NoError THEN "done" ELSE "crashed"
  /\ UNCHANGED <<run_vars, call_vars, batch_vars, filename, parsed>>

\* The next run over the same folder: parse_spreadsheet(gml_path.with_suffix(
\* '.csv')) reads the template that was written.
ParseTemplate ==
  /\ pc = "done"
  /\ template # NoResult
  /\ parsed = NoResult
  /\ parsed' = parse_spreadsheet(template.file)
  /\ error' = parse_spreadsheet(template.file).error
  /\ pc' = IF parse_spreadsheet(template.file).error = NoError THEN "parsed" ELSE "crashed"
  /\ UNCHANGED <<run_vars, call_vars, batch_vars, filename, template>>

NextTemplate == SaveCsvTemplate \/ ParseTemplate

\* One call of save_csv_template on one document, and the call of
\* parse_spreadsheet that finds the template on the next run.
SpecTemplate == InitTemplate /\ [][NextTemplate]_vars

\* ------------------------------------------------------------------------
\* inject_attributes: the batch over the documents of the input folder
\* ------------------------------------------------------------------------
InitBatch ==
  /\ folder \in Folders
  /\ filenames = <<>>
  /\ gml_path = 0
  /\ templates = [d \in 1..Len(folder) |-> NoFile]
  /\ output_folder = [d \in 1..Len(folder) |-> NoFile]
  /\ pc = "glob"
  /\ error = NoError
  /\ gml = NoFile
  /\ df = NoTable
  /\ tree = NoTree
  /\ buildings = <<>>
  /\ building = 0
  /\ parts = <<>>
  /\ cur = 0
  /\ col = 0
  /\ i = 0
  /\ written = NoFile
  /\ first = NoFile
  /\ run = 1
  /\ call = NoCall
  /\ result = NoResult
  /\ filename = NoFile
  /\ parsed = NoResult
  /\ template = NoResult

RECURSIVE glob(_, _, _)
\* input_folder.glob("*" + suffix): the documents with that suffix, from d on.
glob(fs, suffix, d) ==
  IF d > Len(fs) THEN <<>>
  ELSE (IF fs[d].suffix = suffix THEN <<d>> ELSE <<>>) \o glob(fs, suffix, d + 1)

\* [parse_spreadsheet(gml_path.with_suffix(ext)) for ext in ALLOWED_SPREADSHEET_FORMATS]
spreadsheets(entry) ==
  [k \in 1..Len(ALLOWED_SPREADSHEET_FORMATS) |->
     parse_spreadsheet(entry.sheets[ALLOWED_SPREADSHEET_FORMATS[k]])]

\* The exception that list raises: that of the first call that raises.
spreadsheet_error(entry) ==
  LET raising == {k \in 1..Len(ALLOWED_SPREADSHEET_FORMATS) :
                    spreadsheets(entry)[k].error # NoError}
  IN IF raising = {} THEN NoError
     ELSE spreadsheets(entry)[CHOOSE k \in raising : \A q \in raising : k <= q].error

\* dfs = [df for df in dfs if df is not None]
dfs(entry) ==
  LET tables == [k \in 1..Len(ALLOWED_SPREADSHEET_FORMATS) |-> spreadsheets(entry)[k].df]
  IN SelectSeq(tables, LAMBDA t : t # NoTable)

\* The glob of line 208; the generator it returns is never falsy, so the
\* glob of line 210 is never taken.
ListFolder ==
  /\ pc = "glob"
  /\ filenames' = glob(folder, ".xml", 1)
  /\ pc' = "batch"
  /\ UNCHANGED <<run_vars, error, call_vars, parse_vars, folder, gml_path, templates,
                 output_folder>>

\* One turn of the loop in which reading the spreadsheets raises.
SpreadsheetRaises ==
  /\ pc = "batch"
  /\ filenames # <<>>
  /\ spreadsheet_error(folder[Head(filenames)]) # NoError
  /\ gml_path' = Head(filenames)
  /\ filenames' = Tail(filenames)
  /\ pc' = "crashed"
  /\ error' = spreadsheet_error(folder[Head(filenames)])
  /\ UNCHANGED <<run_vars, call_vars, parse_vars, folder, templates, output_folder>>

\* One turn of the loop with more than one table: the error is logged.
TooManySpreadsheets ==
  /\ pc = "batch"
  /\ filenames # <<>>
  /\ spreadsheet_error(folder[Head(filenames)]) = NoError
  /\ Len(dfs(folder[Head(filenames)])) > 1
  /\ gml_path' = 0
  /\ filenames' = Tail(filenames)
  /\ UNCHANGED <<run_vars, pc, error, call_vars, parse_vars, folder, templates,
                 output_folder>>

\* One turn of the loop with no table: save_csv_template.
SaveTemplate ==
  /\ pc = "batch"
  /\ filenames # <<>>
  /\ spreadsheet_error(folder[Head(filenames)]) = NoError
  /\ Len(dfs(folder[Head(filenames)])) = 0
  /\ LET r == save_csv_template(folder[Head(filenames)].gml)
     IN /\ templates' = [templates EXCEPT ![Head(filenames)] = r.file]
        /\ IF r.error = NoError
           THEN gml_path' = 0 /\ UNCHANGED <<pc, error>>
           ELSE gml_path' = Head(filenames) /\ pc' = "crashed" /\ error' = r.error
  /\ filenames' = Tail(filenames)
  /\ UNCHANGED <<run_vars, call_vars, parse_vars, folder, output_folder>>

\* One turn of the loop with exactly one table: process is called, and runs
\* in the steps ParseDocument .. Serialize.
Process ==
  /\ pc = "batch"
  /\ filenames # <<>>
  /\ spreadsheet_error(folder[Head(filenames)]) = NoError
  /\ Len(dfs(folder[Head(filenames)])) = 1
  /\ gml_path' = Head(filenames)
  /\ filenames' = Tail(filenames)
  /\ gml' = folder[Head(filenames)].gml
  /\ df' = dfs(folder[Head(filenames)])[1]
  /\ tree' = NoTree
  /\ i' = 0
  /\ written' = NoFile
  /\ pc' = "parse"
  /\ UNCHANGED <<buildings, building, parts, cur, col, error, first, run, call_vars,
                 parse_vars, folder, templates, output_folder>>

\* process returns to the loop.
ProcessReturns ==
  /\ pc = "done"
  /\ gml_path # 0
  /\ gml_path' = 0
  /\ pc' = "batch"
  /\ UNCHANGED <<run_vars, error, call_vars, parse_vars, folder, filenames, templates,
                 output_folder>>

\* The loop is over: "Finished all gml files".
FinishBatch ==
  /\ pc = "batch"
  /\ filenames = <<>>
  /\ pc' = "finished"
  /\ UNCHANGED <<run_vars, error, call_vars, parse_vars, batch_vars>>

NextBatch ==
  \/ ListFolder
  \/ SpreadsheetRaises
  \/ TooManySpreadsheets
  \/ SaveTemplate
  \/ Process
  \/ ParseDocument
  \/ NextBuilding
  \/ FillAttribute
  \/ NextBuildingPart
  \/ Serialize
  \/ ProcessReturns
  \/ FinishBatch

\* One run of inject_attributes on one input folder.
SpecBatch == InitBatch /\ [][NextBatch]_vars

\* The run in steps ends as process computes it in one go.
StepsAgreeWithProcess ==
  pc \in {"done", "crashed"} =>
    /\ written = process(df, gml).written
    /\ error = process(df, gml).error

\* ------------------------------------------------------------------------
\* Properties of the reconciliation
\* ------------------------------------------------------------------------
\* The tree as it was parsed at the start of the current run.
parsed_root == parse(gml).root

\* The attribute_type entry of a column names the structured / generic path.
is_structured(attribute) ==
  LET ty == loc(df, S_attribute_type, attribute)
  IN ty.kind = "scalar" /\ ty.v.t = "str" /\ lower(ty.v.s) \in {S_bldg, S_building}

is_generic(attribute) ==
  LET ty == loc(df, S_attribute_type, attribute)
  IN ty.kind = "scalar" /\ ty.v.t = "str" /\ lower(ty.v.s) \in {S_gen, S_generic}

\* An element created by the run (it has no parsed identity).
created(e) == e.nid = 0
created_generic(e) == created(e) /\ e.name # NoStr
created_structured(e) == created(e) /\ e.name = NoStr

count(ks, P(_)) == Cardinality({k \in 1..Len(ks) : P(ks[k])})

\* What the tree holds now of an element parsed at the start of the run.
now(e0) == find(tree.root, e0.nid)

\* The descendants of e whose tag matches the attribute name.
matching(e, attribute) ==
  {k \in 1..Len(iterdescendants(e)) : in_str(attribute, iterdescendants(e)[k].tag)}

\* A stringAttribute child with this name.
is_string_attribute(e, attribute) ==
  e.tag = qname(URI_gen, S_stringAttribute) /\ e.name = attribute

\* C1: idempotence of injection: a second run on the first run's output with
\* the same table writes a document identical to the first run's output.
C1_Idempotent ==
  (run = 2 /\ pc = "done") => written = first

\* C5 as stated: for every Building and every structured column, if a
\* matching element under the Building has non-empty text before the
\* reconciliation, the number of matching elements anywhere under the
\* Building is the same after the reconciliation as before.
C5_NoDuplicationUnderBuilding ==
  pc = "done" =>
    \A b0 \in {e \in building_elements(parsed_root) : e.tag = qname(URI_bldg, S_Building)} :
      \A c \in 1..Len(df.columns) :
        (/\ is_structured(df.columns[c])
         /\ get_attribute_if_present(b0, df.columns[c]) # NoElement)
        => Cardinality(matching(now(b0), df.columns[c]))
             = Cardinality(matching(b0, df.columns[c]))

\* C5 as amended: for every Building or BuildingPart and every structured
\* column, if a matching element under that element has non-empty text
\* before the reconciliation, the run appends no element for the column to
\* that element: it has as many children named after the column as before.
C5_NoDuplicationPerElement ==
  tree # NoTree =>
    \A e0 \in building_elements(parsed_root) :
      \A c \in 1..Len(df.columns) :
        (/\ is_structured(df.columns[c])
         /\ get_attribute_if_present(e0, df.columns[c]) # NoElement)
        => count(now(e0).kids, LAMBDA k : k.tag = qname(URI_bldg, df.columns[c]))
             = count(e0.kids, LAMBDA k : k.tag = qname(URI_bldg, df.columns[c]))

\* C5 witness: the run is over, and an element that is in the table with a
\* value for a structured column already had that attribute.
C5_Witness ==
  /\ pc = "done"
  /\ \E e0 \in building_elements(parsed_root) :
       \E c \in 1..Len(df.columns) :
         /\ is_structured(df.columns[c])
         /\ in_table(e0, df)
         /\ ~isnull(loc(df, e0.id, df.columns[c]).v)
         /\ get_attribute_if_present(e0, df.columns[c]) # NoElement

\* C6: an element that already carries a generic stringAttribute named after
\* a generic column, with a non-empty value, gets no second stringAttribute
\* of that name.
C6_GenericNotDuplicated ==
  tree # NoTree =>
    \A e0 \in building_elements(parsed_root) :
      \A c \in 1..Len(df.columns) :
        (/\ is_generic(df.columns[c])
         /\ \E k \in 1..Len(e0.kids) :
              /\ is_string_attribute(e0.kids[k], df.columns[c])
              /\ \E v \in 1..Len(e0.kids[k].kids) : e0.kids[k].kids[v].text # <<>>)
        => count(now(e0).kids, LAMBDA k : is_string_attribute(k, df.columns[c]))
             = count(e0.kids, LAMBDA k : is_string_attribute(k, df.columns[c]))

generic_attribute(attribute, v) ==
  Elem(qname(URI_gen, S_stringAttribute), NoStr, attribute, <<>>,
       <<Elem(qname(URI_gen, S_value), NoStr, NoStr, str(v), <<>>)>>)

structured_attribute(attribute, v) ==
  Elem(qname(URI_bldg, attribute), NoStr, NoStr, str(v), <<>>)

\* The cell a call is about.
cell_of_call == loc(df, call.elem.id, call.attribute).v

\* The element of the call does not have the attribute yet.
lacks_attribute ==
  /\ get_attribute_if_present(call.elem, call.attribute) = NoElement
  /\ \A k \in 1..Len(call.elem.kids) :
       ~is_string_attribute(call.elem.kids[k], call.attribute)

unclassified(attribute) ==
  /\ loc(df, S_attribute_type, attribute).kind = "scalar"
  /\ ~is_structured(attribute)
  /\ ~is_generic(attribute)

\* C9: for an element that is in the table, a column whose attribute_type
\* entry is absent, empty or unrecognized is skipped: the turn of the loop
\* inserts nothing, raises nothing and goes on to the next column.
C9_UnclassifiedSkipped ==
  [][(pc = "loop" /\ cur # 0 /\ col <= Len(df.columns) /\ unclassified(df.columns[col]))
       => (tree' = tree /\ pc' = "loop" /\ col' = col + 1)]_vars

\* ------------------------------------------------------------------------
\* Properties of the batch and of the loader
\* ------------------------------------------------------------------------
\* A spreadsheet file of some format exists beside document d.
has_spreadsheet(d) ==
  \E ext \in Range(ALLOWED_SPREADSHEET_FORMATS) : folder[d].sheets[ext] # NoFile

\* C2: a template is written for a document only when no spreadsheet file of
\* any format exists beside it; an existing spreadsheet, valid or not, is
\* never overwritten by the template.
C2_TemplateOnlyWhenAbsent ==
  \A d \in 1..Len(folder) : templates[d] # NoFile => ~has_spreadsheet(d)

\* The BuildingID cells of a spreadsheet file that has that column.
building_ids(file) ==
  LET frame == read_csv(file)
      b == CHOOSE c \in 1..Len(frame.columns) : frame.columns[c] = S_BuildingID
  IN [r \in 1..Len(frame.rows) |-> frame.rows[r][b]]

has_building_ids(file) ==
  \E c \in 1..Len(read_csv(file).columns) : read_csv(file).columns[c] = S_BuildingID

\* Document d has one spreadsheet file, and two of its rows have the same
\* BuildingID.
has_duplicate_ids(d) ==
  \E ext \in Range(ALLOWED_SPREADSHEET_FORMATS) :
    /\ \A other \in Range(ALLOWED_SPREADSHEET_FORMATS) :
         other # ext <=> folder[d].sheets[other] = NoFile
    /\ has_building_ids(folder[d].sheets[ext])
    /\ duplicated(building_ids(folder[d].sheets[ext])) # {}

\* Document d has exactly one table, it is valid, and process succeeds on it.
has_valid_table(d) ==
  /\ spreadsheet_error(folder[d]) = NoError
  /\ Len(dfs(folder[d])) = 1
  /\ process(dfs(folder[d])[1], folder[d].gml).error = NoError

\* C3: when the batch is over, in a batch whose documents each have either a
\* valid table or a table with duplicate BuildingIDs, every document with a
\* valid table has its output document and no document with duplicate
\* BuildingIDs has one.
C3_BatchResilience ==
  (/\ pc \in {"finished", "crashed"}
   /\ Len(folder) > 0
   /\ \A d \in 1..Len(folder) :
        folder[d].suffix = ".xml" /\ (has_valid_table(d) \/ has_duplicate_ids(d)))
  => \A d \in 1..Len(folder) :
       /\ has_valid_table(d)
            => output_folder[d] = process(dfs(folder[d])[1], folder[d].gml).written
       /\ has_duplicate_ids(d) => output_folder[d] = NoFile

\* C4: a fatal error on one document does not keep the loop from the
\* documents after it: when the batch is over, whether it finished or was
\* ended by an exception, no document is left that the loop has not taken.
C4_EveryDocumentAttempted ==
  pc \in {"finished", "crashed"} => filenames = <<>>

\* The rows of the file that have a BuildingID.
identified_rows(file) ==
  {r \in 1..Len(building_ids(file)) : ~isnull(building_ids(file)[r])}

\* C10: parse_spreadsheet returns no table for a file in which two rows have
\* BuildingIDs that are equal once coerced to string.
C10_CoercedDuplicatesRejected ==
  (/\ parsed # NoResult
   /\ has_building_ids(filename)
   /\ \E r, q \in identified_rows(filename) :
        r # q /\ str(building_ids(filename)[r]) = str(building_ids(filename)[q]))
  => parsed.df = NoTable

\* More than one spreadsheet file of a recognized format exists beside
\* document d.
has_many_spreadsheets(d) ==
  \E ext, other \in Range(ALLOWED_SPREADSHEET_FORMATS) :
    /\ ext # other
    /\ folder[d].sheets[ext] # NoFile
    /\ folder[d].sheets[other] # NoFile

\* C11: a document with more than one spreadsheet file of a recognized
\* format gets no output document and no template, whether or not each of
\* those spreadsheets passes validation.
C11_AmbiguousSourceInvalid ==
  \A d \in 1..Len(folder) :
    has_many_spreadsheets(d) => (templates[d] = NoFile /\ output_folder[d] = NoFile)

\* The file has a BuildingID column and fails validation: two of its rows
\* with a BuildingID have the same one, or an attribute column does not
\* start with a lowercase character.
fails_validation(file) ==
  /\ file # NoFile
  /\ has_building_ids(file)
  /\ \/ duplicated(SelectSeq(building_ids(file), LAMBDA v : ~isnull(v))) # {}
     \/ \E c \in 1..Len(read_csv(file).columns) :
          /\ read_csv(file).columns[c] # S_BuildingID
          /\ ~islower(read_csv(file).columns[c][1])

\* C12: a document one of whose spreadsheet files fails validation gets no
\* output document in the run.
C12_NoInjectionAfterValidationFailure ==
  \A d \in 1..Len(folder) :
    (\E ext \in Range(ALLOWED_SPREADSHEET_FORMATS) : fails_validation(folder[d].sheets[ext]))
      => output_folder[d] = NoFile

\* C13: when the batch has finished, every document of the folder, .xml or
\* .gml, has been handled: a document without any spreadsheet file has its
\* template.
C13_InputCoverage ==
  pc = "finished" =>
    \A d \in 1..Len(folder) : ~has_spreadsheet(d) => templates[d] # NoFile

\* The attribute columns of the file.
attribute_columns(file) ==
  SelectSeq(read_csv(file).columns, LAMBDA c : c # S_BuildingID)

\* The attribute column names that do not start with a lowercase character.
offending_columns(file) ==
  SelectSeq(attribute_columns(file), LAMBDA c : ~islower(c[1]))

\* No two rows of the file that have a BuildingID have the same one.
has_unique_ids(file) ==
  duplicated(SelectSeq(building_ids(file), LAMBDA v : ~isnull(v))) = {}

\* C14: for a file with unique BuildingIDs, parse_spreadsheet returns a
\* table if every attribute column name starts with a lowercase character;
\* otherwise it returns no table, raises nothing, and the logged error lists
\* every offending column name.
C14_LowercaseRule ==
  (/\ parsed # NoResult
   /\ has_building_ids(filename)
   /\ has_unique_ids(filename))
  => IF offending_columns(filename) = <<>>
     THEN parsed.df # NoTable /\ parsed.error = NoError
     ELSE /\ parsed.df = NoTable
          /\ parsed.error = NoError
          /\ parsed.log = offending_columns(filename)

\* The Building elements of the document, in document order.
buildings_of(file) ==
  SelectSeq(iterdescendants(parse(file).root),
            LAMBDA e : e.tag = qname(URI_bldg, S_Building))

\* The text of the attribute found in the Building, or nothing.
text_if_present(b, attribute) ==
  IF get_attribute_if_present(b, attribute) = NoElement THEN <<>>
  ELSE get_attribute_if_present(b, attribute).text

\* C15: the template holds the three fixed rows and then one row per
\* Building of the document, in document order: its identifier, its
\* yearOfConstruction text and its function text when present (empty
\* otherwise), and a blank comment column.
C15_TemplateShape ==
  template # NoResult =>
    /\ template.error = NoError
    /\ Len(template.file.lines) = 3 + Len(buildings_of(gml))
    /\ template.file.lines[1] = <<S_BuildingID, S_yearOfConstruction, S_function, S_comment>>
    /\ template.file.lines[2] = <<S_attribute_type, S_bldg, S_bldg, S_gen>>
    /\ \A k \in 1..Len(buildings_of(gml)) :
         template.file.lines[3 + k]
           = <<buildings_of(gml)[k].id,
               text_if_present(buildings_of(gml)[k], S_yearOfConstruction),
               text_if_present(buildings_of(gml)[k], S_function),
               <<>>>>

RECURSIVE proper_descendants(_)
\* The elements below e, e itself excluded.
proper_descendants(e) ==
  UNION {{e.kids[k]} \cup proper_descendants(e.kids[k]) : k \in 1..Len(e.kids)}

\* The qualified tag of d contains the name and d has text.
satisfies(d, name) == in_str(name, d.tag) /\ Len(d.text) > 0

\* C16: get_attribute_if_present returns the first proper descendant of the
\* element in document order whose qualified tag contains the name and
\* whose text is non-empty, and not-found exactly when there is none.
C16_FirstMatchingDescendant ==
  (result # NoResult /\ call.fn = "present") =>
    LET candidates == {d \in proper_descendants(call.elem) : satisfies(d, call.attribute)}
    IN IF candidates = {} THEN result.elem = NoElement
       ELSE /\ result.elem \in candidates
            /\ \A d \in candidates : result.elem.nid <= d.nid

\* C16 witness: the element returned lies in a nested BuildingPart, after a
\* child of the element whose tag matches but whose text is empty.
C16_Witness ==
  /\ result # NoResult
  /\ call.fn = "present"
  /\ result.elem # NoElement
  /\ \A k \in 1..Len(call.elem.kids) : call.elem.kids[k] # result.elem
  /\ \E k \in 1..Len(call.elem.kids) :
       /\ in_str(call.attribute, call.elem.kids[k].tag)
       /\ call.elem.kids[k].text = <<>>
       /\ call.elem.kids[k].nid < result.elem.nid

\* The child was created by the run for this column.
created_for(kid, attribute) ==
  /\ created(kid)
  /\ \/ is_structured(attribute) /\ kid.tag = qname(URI_bldg, attribute)
     \/ is_generic(attribute) /\ is_string_attribute(kid, attribute)

\* A BuildingPart that is in the table, under a Building that is not.
listed_part_of_unlisted_building(p0) ==
  /\ p0.tag = qname(URI_bldg, S_BuildingPart)
  /\ in_table(p0, df)
  /\ \E b0 \in building_elements(parsed_root) :
       /\ b0.tag = qname(URI_bldg, S_Building)
       /\ p0 \in proper_descendants(b0)
       /\ ~in_table(b0, df)

\* C17: the run gives new children only to Buildings and BuildingParts whose
\* own gml:id is in the index of the table; an element without gml:id or
\* with an id that is not in the index gets none; and a BuildingPart that is
\* in the table is reconciled although its Building is not: for every column
\* with a value that the part lacked, the part has a new child for the
\* column or get_attribute_if_present now finds the attribute in the part.
C17_PerElementLookup ==
  tree # NoTree =>
    /\ \A e \in {tree.root} \cup proper_descendants(tree.root) :
         (~created(e) /\ \E k \in 1..Len(e.kids) : created(e.kids[k]))
           => (e \in building_elements(tree.root) /\ in_table(e, df))
    /\ \A e0 \in building_elements(parsed_root) :
         ~in_table(e0, df) => \A k \in 1..Len(now(e0).kids) : ~created(now(e0).kids[k])
    /\ pc = "done" =>
         \A p0 \in building_elements(parsed_root) :
           \A c \in 1..Len(df.columns) :
             (/\ listed_part_of_unlisted_building(p0)
              /\ is_structured(df.columns[c]) \/ is_generic(df.columns[c])
              /\ ~isnull(loc(df, p0.id, df.columns[c]).v)
              /\ get_attribute_if_present(p0, df.columns[c]) = NoElement)
             => \/ \E k \in 1..Len(now(p0).kids) :
                     created_for(now(p0).kids[k], df.columns[c])
                \/ get_attribute_if_present(now(p0), df.columns[c]) # NoElement

\* C17 witness: the run is over and a BuildingPart that is in the table has
\* a new child, under a Building that is not in the table.
C17_Witness ==
  /\ pc = "done"
  /\ \E p0 \in building_elements(parsed_root) :
       /\ listed_part_of_unlisted_building(p0)
       /\ \E k \in 1..Len(now(p0).kids) : created(now(p0).kids[k])

\* A newline followed by two spaces per level.
newline_indent(d) == <<"\n">> \o repeat(<<" ", " ">>, d)

RECURSIVE indented_as_stated(_, _)
\* Every element under e (at depth d) is indented as C18 states.
indented_as_stated(e, d) ==
  /\ Len(e.kids) > 0 =>
       /\ e.text = newline_indent(d + 1)
       /\ e.kids[Len(e.kids)].tail = newline_indent(d)
  /\ \A k \in 1..Len(e.kids) :
       /\ Len(e.kids[k].kids) = 0
            => e.kids[k].tail \in {newline_indent(d + 1), newline_indent(d)}
       /\ indented_as_stated(e.kids[k], d + 1)

\* C18 as stated: after indent_xml on a root, every element at depth d that
\* has children has the text newline + 2*(d+1) spaces and its last child has
\* the tail newline + 2*d spaces, and every element without children below
\* the root has a newline-plus-indent tail.
C18_IndentationEverywhere ==
  (result # NoResult /\ call.fn = "indent") => indented_as_stated(result.elem, 0)

RECURSIVE indented_where_blank(_, _, _)
\* new is old (at depth d) with the blank texts and tails below it indented
\* and everything else kept.
indented_where_blank(old, new, d) ==
  /\ new.tag = old.tag
  /\ Len(new.kids) = Len(old.kids)
  /\ new.text = IF Len(old.kids) > 0 /\ is_blank(old.text)
                THEN newline_indent(d + 1) ELSE old.text
  /\ \A k \in 1..Len(old.kids) :
       /\ new.kids[k].tail =
            IF ~is_blank(old.kids[k].tail) THEN old.kids[k].tail
            ELSE IF k = Len(old.kids) THEN newline_indent(d)
            ELSE newline_indent(d + 1)
       /\ indented_where_blank(old.kids[k], new.kids[k], d + 1)

\* C18 as amended: after indent_xml on a root, every element at depth d that
\* has children and whose text is empty or whitespace has the text newline +
\* 2*(d+1) spaces; every child at depth d+1 whose tail is empty or whitespace
\* has the tail newline + 2*(d+1) spaces, the last child newline + 2*d
\* spaces; text and tails that hold other characters, and the text of
\* elements without children, are kept.
C18_IndentationOfBlanks ==
  (result # NoResult /\ call.fn = "indent") =>
    /\ indented_where_blank(call.elem, result.elem, 0)
    /\ result.elem.tail = IF Len(call.elem.kids) > 0 /\ is_blank(call.elem.tail)
                          THEN newline_indent(0) ELSE call.elem.tail

\* C18 witness: indent_xml has returned for a root with two children, the
\* first of which has a child of its own, all of them with blank text and
\* tails.
C18_Witness ==
  /\ result # NoResult
  /\ call.fn = "indent"
  /\ Len(call.elem.kids) = 2
  /\ Len(call.elem.kids[1].kids) = 1
  /\ is_blank(call.elem.text)
  /\ is_blank(call.elem.kids[1].text)
  /\ is_blank(call.elem.kids[1].tail)
  /\ is_blank(call.elem.kids[2].tail)
  /\ is_blank(call.elem.kids[1].kids[1].tail)
  /\ result.elem.kids[1].text = newline_indent(2)
  /\ result.elem.kids[1].kids[1].tail = newline_indent(1)

\* A Building and a BuildingPart under it that are both in the table with a
\* value for the structured column, while no element under the Building has
\* a tag that matches the column.
both_lack_attribute(b0, p0, attribute) ==
  /\ b0.tag = qname(URI_bldg, S_Building)
  /\ p0.tag = qname(URI_bldg, S_BuildingPart)
  /\ p0 \in proper_descendants(b0)
  /\ is_structured(attribute)
  /\ b0.id # NoStr /\ in_index(df, b0.id)
  /\ p0.id # NoStr /\ in_index(df, p0.id)
  /\ ~isnull(loc(df, b0.id, attribute).v)
  /\ ~isnull(loc(df, p0.id, attribute).v)
  /\ matching(b0, attribute) = {}

\* C19: when a Building and one of its BuildingParts are both in the table
\* with a value for the same structured column and neither has the attribute
\* beforehand, after the run each of the two has exactly one child with that
\* attribute.
C19_BuildingBeforePart ==
  pc = "done" =>
    \A b0, p0 \in building_elements(parsed_root) :
      \A c \in 1..Len(df.columns) :
        both_lack_attribute(b0, p0, df.columns[c])
          => /\ count(now(b0).kids, LAMBDA k : k.tag = qname(URI_bldg, df.columns[c])) = 1
             /\ count(now(p0).kids, LAMBDA k : k.tag = qname(URI_bldg, df.columns[c])) = 1

\* C19 witness: the run is over for such a Building and BuildingPart.
C19_Witness ==
  /\ pc = "done"
  /\ \E b0, p0 \in building_elements(parsed_root) :
       \E c \in 1..Len(df.columns) : both_lack_attribute(b0, p0, df.columns[c])

\* C20: the template that save_csv_template writes is accepted by
\* parse_spreadsheet on the next run: it loads without raising as a table
\* indexed by BuildingID, with the columns yearOfConstruction, function and
\* comment and an attribute_type row.
C20_TemplateRoundTrip ==
  (template # NoResult /\ template.error = NoError /\ parsed # NoResult)
    => /\ parsed.error = NoError
       /\ parsed.df # NoTable
       /\ parsed.df.columns = <<S_yearOfConstruction, S_function, S_comment>>
       /\ in_index(parsed.df, S_attribute_type)

\* The children of e that carry the attribute of a column: a structured
\* element with the column's name, or a stringAttribute named by it.
kids_for(e, attribute) ==
  {k \in 1..Len(e.kids) :
     \/ e.kids[k].tag = qname(URI_bldg, attribute)
     \/ e.kids[k].tag = qname(URI_gen, S_stringAttribute) /\ e.kids[k].name = attribute}

\* The columns of the table for which the call adds a child to e.
injected(e, table) ==
  {c \in 1..Len(table.columns) :
     Cardinality(kids_for(
       fill_building_or_building_part_with_attributes(e, table, FullNsmap).elem,
       table.columns[c]))
       > Cardinality(kids_for(e, table.columns[c]))}

injected_names(e, table) == {table.columns[c] : c \in injected(e, table)}

\* The table with its columns in the order p.
reordered(table, p) ==
  [table EXCEPT !.columns = [k \in 1..Len(p) |-> table.columns[p[k]]],
                !.data = [r \in 1..Len(table.data) |->
                            [k \in 1..Len(p) |-> table.data[r][p[k]]]]]

\* The table reduced to its column c.
only(table, c) == reordered(table, <<c>>)

orders(n) == {p \in [1..n -> 1..n] : \A j, k \in 1..n : j # k => p[j] # p[k]}

\* C21: for one element, the set of attributes that
\* fill_building_or_building_part_with_attributes injects is the same for
\* every order of the table's columns, and each column is injected exactly
\* when it is injected from a table that holds this column alone.
C21_ColumnOrderIndependence ==
  (result # NoResult /\ call.fn = "fill") =>
    /\ \A p \in orders(Len(df.columns)) :
         injected_names(call.elem, reordered(df, p)) = injected_names(call.elem, df)
    /\ \A c \in 1..Len(df.columns) :
         c \in injected(call.elem, df) <=> injected(call.elem, only(df, c)) # {}

====
